---- MODULE Spec2Model ----
(***************************************************************************)
(* A model of bigO.c: the reference algorithm of each complexity class and *)
(* the harness (main, create_environments, show_algo_results) that binds,  *)
(* runs and reports them.                                                  *)
(*                                                                         *)
(* C arrays are 0-indexed; a C array of sz elements is a sequence of       *)
(* length sz and the C element a[i] is At(a, i) = a[i + 1].  A loop of the *)
(* source is a RECURSIVE operator that carries the loop's locals.          *)
(***************************************************************************)
EXTENDS Integers, Sequences, FiniteSets, TLC

VARIABLES
    pc,             \* where the program is: "main", "build", "sample", "run", "exit";
                    \* for a routine on its own: "setup", "call", "hanoi", "exit"
    args,           \* argv[1..argc-1], each a sequence of characters
    sz,             \* main's sz, the parameter of create_environments
    sorted_array,   \* create_environments: sorted_array->vals
    array,          \* create_environments: array->vals
    mutable_array,  \* create_environments: mutable_array->vals
    needle,         \* search->needle (search->haystack is sorted_array)
    rs,             \* struct range_sum but for its array (which is array)
    environments,   \* the registry, up to and including the end marker
    env,            \* show_algo_results: index of the entry the cursor is at
    out,            \* what has been printed, one record per line
    calls,          \* how often each routine has been invoked, by phase
    result,         \* the outcome of the last algorithm invoked
    hstack,         \* solve_hanoi on its own: the activation records of
                    \* solve_hanoi_1, innermost last
    num             \* solve_hanoi on its own: the argument of the call

vars == <<pc, args, sz, sorted_array, array, mutable_array, needle, rs,
          environments, env, out, calls, result, hstack, num>>

----------------------------------------------------------------------------
(* Bounds of the model. *)

\* longest sequence given to an algorithm on its own
MaxLen == 5
\* elements of such a sequence range over -MaxVal..MaxVal
MaxVal == 1
\* largest size argument the harness is run with
MaxN == 2
\* rand() ranges over 0..RandMax
RandMax == 1
\* largest disk count solve_hanoi is given on its own
MaxDisks == 5

Vals == (0 - MaxVal)..MaxVal

\* the sequences of length 0..n over S
SeqsUpTo(S, n) == UNION {[1..k -> S] : k \in 0..n}

Sorted(a) == \A i \in 1..(Len(a) - 1) : a[i] <= a[i + 1]

RECURSIVE SumUpTo(_, _)
SumUpTo(a, k) == IF k = 0 THEN 0 ELSE SumUpTo(a, k - 1) + a[k]

\* a[from] + ... + a[to] of the C array a, summed directly
DirectSum(a, from, to) == SumUpTo(a, to + 1) - SumUpTo(a, from)

RECURSIVE Pow2(_)
Pow2(n) == IF n = 0 THEN 1 ELSE 2 * Pow2(n - 1)

\* how often v occurs in a
Count(a, v) == Cardinality({i \in 1..Len(a) : a[i] = v})

Permutation(a, b) ==
    /\ Len(a) = Len(b)
    /\ \A i \in 1..Len(a) : Count(a, a[i]) = Count(b, a[i])

----------------------------------------------------------------------------
(* Memory. *)

At(a, i) == a[i + 1]

InBounds(a, i) == 0 <= i /\ i < Len(a)

\* a[i] as an rvalue: the element, or whatever lies next to the block when i
\* is outside it (junk is the value the build happens to find there)
Read(a, i, junk) == IF InBounds(a, i) THEN At(a, i) ELSE junk

\* a[i] = v
Write(a, i, v) == [a EXCEPT ![i + 1] = v]

\* the values an out-of-bounds read may produce
JunkVals == {0 - MaxVal - 1, 0, MaxVal}

NoResult == [algo |-> "none"]

----------------------------------------------------------------------------
(* O(1): get_first. *)

get_first(a) ==
    IF Len(a) > 0
        THEN [algo |-> "get_first", val |-> At(a, 0), reads |-> {0}]
        ELSE [algo |-> "get_first", val |-> 0 - 1, reads |-> {}]

----------------------------------------------------------------------------
(* O(log n): binary_jump_search.  reads collects the haystack positions the *)
(* search has read.                                                         *)

\* long jump = s->haystack->sz / 2
JumpStart(n) == n \div 2

\* KeepJumping with < for <=
KeepJumpingStrict(v, ndl) == v < ndl

\* s->haystack->vals[pos+jump] <= s->needle
KeepJumping(v, ndl) == v <= ndl

\* the inner while: advance by jump while the element there is <= needle
RECURSIVE bjs_advance(_, _, _, _, _)
bjs_advance(hay, ndl, jump, pos, reads) ==
    IF pos + jump < Len(hay)
        THEN IF KeepJumping(At(hay, pos + jump), ndl)
                 THEN bjs_advance(hay, ndl, jump, pos + jump, reads \cup {pos + jump})
                 ELSE [pos |-> pos, reads |-> reads \cup {pos + jump}]
        ELSE [pos |-> pos, reads |-> reads]

\* the outer while: halve jump until it is 0
RECURSIVE bjs_halve(_, _, _, _, _)
bjs_halve(hay, ndl, jump, pos, reads) ==
    IF jump > 0
        THEN LET s == bjs_advance(hay, ndl, jump, pos, reads)
             IN  bjs_halve(hay, ndl, jump \div 2, s.pos, s.reads)
        ELSE [pos |-> pos, reads |-> reads]

binary_jump_search(hay, ndl, junk) ==
    LET s == bjs_halve(hay, ndl, JumpStart(Len(hay)), 0, {})
    IN  [algo  |-> "binary_jump_search",
         val   |-> IF Read(hay, s.pos, junk) = ndl
                       THEN "Found needle!" ELSE "Needle not found!",
         reads |-> s.reads \cup {s.pos}]

----------------------------------------------------------------------------
(* O(n): linear_search. *)

\* s->haystack->vals[i] == s->needle
IsNeedle(v, ndl) == v = ndl

RECURSIVE ls_scan(_, _, _, _)
ls_scan(hay, ndl, i, reads) ==
    IF i < Len(hay)
        THEN IF IsNeedle(At(hay, i), ndl)
                 THEN [algo |-> "linear_search", val |-> "Found needle!",
                       reads |-> reads \cup {i}]
                 ELSE ls_scan(hay, ndl, i + 1, reads \cup {i})
        ELSE [algo |-> "linear_search", val |-> "Needle Not Found!", reads |-> reads]

linear_search(hay, ndl) == ls_scan(hay, ndl, 0, {})

\* which RESULT of a search was reached
Found(r) == r.val = "Found needle!"

----------------------------------------------------------------------------
(* O(sqrt n): setup_slice_sums and range_sum_query. *)

\* (long)sqrt(n)
Isqrt(n) == CHOOSE r \in 0..n : r * r <= n /\ (r + 1) * (r + 1) > n

\* NumSlices without the + 1
NumSlicesNoSpare(n, root_sz) == n \div root_sz

\* int num_slices = max_slice + 1, with max_slice = sz / root_sz
NumSlices(n, root_sz) == (n \div root_sz) + 1

\* the slice element i is added to
SliceOf(i, root_sz) == i \div root_sz

\* the second for loop: slice_sum[i/root_sz] += vals[i]; writes collects the
\* slice indices written (a write outside slice_sum changes no slice)
RECURSIVE sss_fill(_, _, _, _, _)
sss_fill(a, root_sz, slices, i, writes) ==
    IF i < Len(a)
        THEN LET b == SliceOf(i, root_sz)
             IN  IF InBounds(slices, b)
                     THEN sss_fill(a, root_sz,
                                   [slices EXCEPT ![b + 1] = @ + At(a, i)],
                                   i + 1, writes \cup {b})
                     ELSE sss_fill(a, root_sz, slices, i + 1, writes \cup {b})
        ELSE [slice_sum |-> slices, writes |-> writes]

\* defined for a non-empty array: for sz = 0 the source divides by root_sz = 0
setup_slice_sums(a) ==
    LET root_sz == Isqrt(Len(a))
        zeroed  == [k \in 1..NumSlices(Len(a), root_sz) |-> 0]
        filled  == sss_fill(a, root_sz, zeroed, 0, {})
    IN  [slice_sum |-> filled.slice_sum, root_sz |-> root_sz, writes |-> filled.writes]

\* (i+1)%rs->root_sz != 0: the first loop goes on
Unaligned(i, root_sz) == (i + 1) % root_sz # 0

RECURSIVE rsq_prefix(_, _, _, _)
rsq_prefix(a, r, i, sum) ==
    IF Unaligned(i, r.root_sz) /\ i <= r.to
        THEN rsq_prefix(a, r, i + 1, sum + At(a, i))
        ELSE [i |-> i, sum |-> sum]

RECURSIVE rsq_blocks(_, _, _)
rsq_blocks(r, i, sum) ==
    IF i + r.root_sz <= r.to
        THEN rsq_blocks(r, i + r.root_sz, sum + At(r.slice_sum, i \div r.root_sz))
        ELSE [i |-> i, sum |-> sum]

RECURSIVE rsq_suffix(_, _, _, _)
rsq_suffix(a, r, i, sum) ==
    IF i <= r.to
        THEN rsq_suffix(a, r, i + 1, sum + At(a, i))
        ELSE [i |-> i, sum |-> sum]

range_sum_query(r, a) ==
    LET p == rsq_prefix(a, r, r.from, 0)
        b == rsq_blocks(r, p.i, p.sum)
        s == rsq_suffix(a, r, b.i, b.sum)
    IN  [algo |-> "range_sum_query", val |-> s.sum]

----------------------------------------------------------------------------
(* O(n log n): quick_sort.  acc collects the array indices read or written; *)
(* stray tells whether a partition_1 touched an index outside its [low,high]. *)

\* array[left] <= pivot && left <= high: the element is read first
LeftGoesOn(v, pivot, left, high) == v <= pivot /\ left <= high

\* array[right] > pivot
RightGoesOn(v, pivot) == v > pivot

RECURSIVE p1_left(_, _, _, _, _, _)
p1_left(a, pivot, high, left, acc, junk) ==
    IF LeftGoesOn(Read(a, left, junk), pivot, left, high)
        THEN p1_left(a, pivot, high, left + 1, acc \cup {left}, junk)
        ELSE [left |-> left, acc |-> acc \cup {left}]

RECURSIVE p1_right(_, _, _, _, _)
p1_right(a, pivot, right, acc, junk) ==
    IF RightGoesOn(Read(a, right, junk), pivot)
        THEN p1_right(a, pivot, right - 1, acc \cup {right}, junk)
        ELSE [right |-> right, acc |-> acc \cup {right}]

\* while(left < right) of partition_1
RECURSIVE p1_loop(_, _, _, _, _, _, _)
p1_loop(a, pivot, high, left, right, acc, junk) ==
    IF left < right
        THEN LET l == p1_left(a, pivot, high, left, acc, junk)
                 r == p1_right(a, pivot, right, l.acc, junk)
             IN  IF l.left < r.right
                     THEN p1_loop(Write(Write(a, l.left, At(a, r.right)),
                                        r.right, At(a, l.left)),
                                  pivot, high, l.left, r.right, r.acc, junk)
                     ELSE p1_loop(a, pivot, high, l.left, r.right, r.acc, junk)
        ELSE [vals |-> a, right |-> right, acc |-> acc]

\* partition_1 without array[low] = array[right]
partition_1_keeps_low(a, low, high, junk) ==
    LET pivot == At(a, low)
        s     == p1_loop(a, pivot, high, low, high, {low}, junk)
    IN  [vals  |-> Write(s.vals, s.right, pivot),
         right |-> s.right,
         acc   |-> s.acc]

partition_1(a, low, high, junk) ==
    LET pivot == At(a, low)
        s     == p1_loop(a, pivot, high, low, high, {low}, junk)
    IN  [vals  |-> Write(Write(s.vals, low, At(s.vals, s.right)), s.right, pivot),
         right |-> s.right,
         acc   |-> s.acc]

RECURSIVE quick_sort_1(_, _, _, _)
quick_sort_1(a, low, high, junk) ==
    IF low < high
        THEN LET p == partition_1(a, low, high, junk)
                 l == quick_sort_1(p.vals, low, p.right - 1, junk)
                 r == quick_sort_1(l.vals, p.right + 1, high, junk)
             IN  [vals  |-> r.vals,
                  acc   |-> p.acc \cup l.acc \cup r.acc,
                  stray |-> \/ p.acc \ (low..high) # {}
                            \/ l.stray
                            \/ r.stray]
        ELSE [vals |-> a, acc |-> {}, stray |-> FALSE]

quick_sort(a, junk) ==
    LET s == quick_sort_1(a, 0, Len(a) - 1, junk)
    IN  [algo |-> "quick_sort", val |-> s.vals, acc |-> s.acc, stray |-> s.stray]

----------------------------------------------------------------------------
(* O(n^2): find_max_seq_sum. *)

\* double max_sum = 0
MaxSumStart == 0

\* NewMax with the comparison turned round
NewMaxFlipped(curr_sum, max_sum) == IF curr_sum < max_sum THEN curr_sum ELSE max_sum

\* if(curr_sum > max_sum) max_sum = curr_sum
NewMax(curr_sum, max_sum) == IF curr_sum > max_sum THEN curr_sum ELSE max_sum

RECURSIVE fms_inner(_, _, _, _)
fms_inner(a, j, curr_sum, max_sum) ==
    IF j < Len(a)
        THEN fms_inner(a, j + 1, curr_sum + At(a, j),
                       NewMax(curr_sum + At(a, j), max_sum))
        ELSE max_sum

RECURSIVE fms_outer(_, _, _)
fms_outer(a, i, max_sum) ==
    IF i < Len(a)
        THEN fms_outer(a, i + 1, fms_inner(a, i, 0, max_sum))
        ELSE max_sum

find_max_seq_sum(a) ==
    [algo |-> "find_max_seq_sum", val |-> fms_outer(a, 0, MaxSumStart)]

----------------------------------------------------------------------------
(* O(2^n): solve_hanoi.  The recursion of solve_hanoi_1 is run on a stack  *)
(* of frames: a frame holds the call's arguments and where the call is      *)
(* ("enter": at its first line, "move": before the RESULT, "leave": after   *)
(* the second recursive call).  The harness runs the call to its return in  *)
(* one step (hanoi_run); on its own it is followed step by step.            *)

Frame(n, from_peg, to_peg, spare_peg) ==
    [num |-> n, from_peg |-> from_peg, to_peg |-> to_peg,
     spare_peg |-> spare_peg, at |-> "enter"]

\* if(num < 1) return
BaseCase(n) == n < 1

\* Recurses with num > 0
RecursesFromOne(n) == n > 0

\* if(num > 1), the guard of both recursive calls
Recurses(n) == n > 1

Pop(st) == SubSeq(st, 1, Len(st) - 1)

SetTop(st, at) == [st EXCEPT ![Len(st)].at = at]

\* solve_hanoi(num): the call solve_hanoi_1(num, 1, 2, 3) is entered; moves
\* counts the RESULTs reached, entered the calls of solve_hanoi_1
solve_hanoi(n) == [stack |-> <<Frame(n, 1, 2, 3)>>, moves |-> 0, entered |-> 1]

\* the base-case test and the first recursive call of the running call
hanoi_enter(h) ==
    LET top == h.stack[Len(h.stack)]
    IN  IF BaseCase(top.num)
            THEN [h EXCEPT !.stack = Pop(h.stack)]
            ELSE IF Recurses(top.num)
                     THEN [h EXCEPT
                              !.stack = Append(SetTop(h.stack, "move"),
                                  Frame(top.num - 1, top.from_peg, top.spare_peg, top.to_peg)),
                              !.entered = @ + 1]
                     ELSE [h EXCEPT !.stack = SetTop(h.stack, "move")]

\* the RESULT("move ...") and the second recursive call
hanoi_move(h) ==
    LET top == h.stack[Len(h.stack)]
    IN  IF Recurses(top.num)
            THEN [h EXCEPT
                     !.stack = Append(SetTop(h.stack, "leave"),
                         Frame(top.num - 1, top.spare_peg, top.to_peg, top.from_peg)),
                     !.moves = @ + 1,
                     !.entered = @ + 1]
            ELSE [h EXCEPT !.stack = Pop(h.stack), !.moves = @ + 1]

\* the return of a call that recursed
hanoi_leave(h) == [h EXCEPT !.stack = Pop(h.stack)]

hanoi_step(h) ==
    LET at == h.stack[Len(h.stack)].at
    IN  CASE at = "enter" -> hanoi_enter(h)
          [] at = "move"  -> hanoi_move(h)
          [] at = "leave" -> hanoi_leave(h)

\* the call run until it returns
RECURSIVE hanoi_run(_)
hanoi_run(h) == IF h.stack = <<>> THEN h ELSE hanoi_run(hanoi_step(h))

HanoiResult(h) == [algo |-> "solve_hanoi", moves |-> h.moves, entered |-> h.entered]

\* solve_hanoi as the variables hold it, step by step
Running == [stack |-> hstack, moves |-> result.moves, entered |-> result.entered]

Top == hstack[Len(hstack)]

HanoiStep(h) ==
    /\ hstack' = h.stack
    /\ result' = HanoiResult(h)
    /\ UNCHANGED <<pc, args, sz, sorted_array, array, mutable_array, needle, rs,
                   environments, env, out, calls, num>>

HanoiEnter ==
    /\ pc = "hanoi"
    /\ hstack # <<>>
    /\ Top.at = "enter"
    /\ HanoiStep(hanoi_enter(Running))

HanoiMove ==
    /\ pc = "hanoi"
    /\ hstack # <<>>
    /\ Top.at = "move"
    /\ HanoiStep(hanoi_move(Running))

HanoiLeave ==
    /\ pc = "hanoi"
    /\ hstack # <<>>
    /\ Top.at = "leave"
    /\ HanoiStep(hanoi_leave(Running))

\* solve_hanoi returns
HanoiReturn ==
    /\ pc = "hanoi"
    /\ hstack = <<>>
    /\ pc' = "exit"
    /\ UNCHANGED <<args, sz, sorted_array, array, mutable_array, needle, rs,
                   environments, env, out, calls, result, hstack, num>>

----------------------------------------------------------------------------
(* A routine invoked on the data the harness binds it to. *)

Routines == {"get_first", "binary_jump_search", "range_sum_query", "linear_search",
             "quick_sort", "find_max_seq_sum", "solve_hanoi", "do_nothing",
             "setup_slice_sums"}

NoCalls == [phase \in {"setup", "run"} |-> [r \in Routines |-> 0]]

Called(c, phase, r) == [c EXCEPT ![phase][r] = @ + 1]

\* algo(data): d is the data when it is an integer cast to a pointer
Invoke(algo, d, junk) ==
    CASE algo = "get_first"          -> get_first(array)
      [] algo = "binary_jump_search" -> binary_jump_search(sorted_array, needle, junk)
      [] algo = "range_sum_query"    -> range_sum_query(rs, array)
      [] algo = "linear_search"      -> linear_search(sorted_array, needle)
      [] algo = "quick_sort"         -> quick_sort(mutable_array, junk)
      [] algo = "find_max_seq_sum"   -> find_max_seq_sum(array)
      [] algo = "solve_hanoi"        -> HanoiResult(hanoi_run(solve_hanoi(d)))
      [] algo = "do_nothing"         -> [algo |-> "do_nothing"]

\* the call of a routine on its own, and its return
Call(algo) ==
    /\ result' \in {Invoke(algo, 0, junk) : junk \in JunkVals}
    /\ mutable_array' = IF algo = "quick_sort" THEN result'.val ELSE mutable_array
    /\ pc' = "exit"
    /\ calls' = Called(calls, "run", algo)
    /\ UNCHANGED <<args, sz, sorted_array, array, needle, rs, environments, env,
                   out, hstack, num>>

RunGetFirst ==
    /\ pc = "call"
    /\ Call("get_first")

RunBinaryJumpSearch ==
    /\ pc = "call"
    /\ Call("binary_jump_search")

RunRangeSumQuery ==
    /\ pc = "call"
    /\ Call("range_sum_query")

RunLinearSearch ==
    /\ pc = "call"
    /\ Call("linear_search")

RunQuickSort ==
    /\ pc = "call"
    /\ Call("quick_sort")

RunFindMaxSeqSum ==
    /\ pc = "call"
    /\ Call("find_max_seq_sum")

\* setup_slice_sums called directly, from pc = "setup"
RunSetupSliceSums ==
    /\ pc = "setup"
    /\ LET s == setup_slice_sums(array)
       IN  /\ rs' = [rs EXCEPT !.slice_sum = s.slice_sum, !.root_sz = s.root_sz]
           /\ result' = [algo |-> "setup_slice_sums", writes |-> s.writes]
    /\ pc' = "call"
    /\ calls' = Called(calls, "setup", "setup_slice_sums")
    /\ UNCHANGED <<args, sz, sorted_array, array, mutable_array, needle,
                   environments, env, out, hstack, num>>

----------------------------------------------------------------------------
(* The command line: get_sz and atol. *)

Digits == <<"0", "1", "2", "3", "4", "5", "6", "7", "8", "9">>

IsDigit(c) == \E d \in 1..Len(Digits) : Digits[d] = c

DigitVal(c) == (CHOOSE d \in 1..Len(Digits) : Digits[d] = c) - 1

IsSpace(c) == c = " "

RECURSIVE atol_spaces(_, _)
atol_spaces(s, i) ==
    IF i <= Len(s) /\ IsSpace(s[i]) THEN atol_spaces(s, i + 1) ELSE i

RECURSIVE atol_digits(_, _, _)
atol_digits(s, i, acc) ==
    IF i <= Len(s) /\ IsDigit(s[i])
        THEN atol_digits(s, i + 1, acc * 10 + DigitVal(s[i]))
        ELSE acc

\* atol: leading white space, an optional sign, then the longest run of digits
atol(s) ==
    LET i == atol_spaces(s, 1)
    IN  IF i <= Len(s) /\ s[i] = "-" THEN 0 - atol_digits(s, i + 1, 0)
        ELSE IF i <= Len(s) /\ s[i] = "+" THEN atol_digits(s, i + 1, 0)
        ELSE atol_digits(s, i, 0)

\* get_sz with a size of 1 for a missing argument
get_sz_default(a) == IF Len(a) + 1 < 2 THEN 1 ELSE atol(a[1])

\* argc is 1 + Len(a): a holds argv[1..]
get_sz(a) == IF Len(a) + 1 < 2 THEN 0 ELSE atol(a[1])

\* if(!sz)
NoSize(n) == n = 0

Main ==
    /\ pc = "main"
    /\ sz' = get_sz(args)
    /\ IF NoSize(sz')
           THEN /\ out' = Append(out, [kind |-> "usage"])
                /\ pc' = "exit"
           ELSE /\ out' = out
                /\ pc' = "build"
    /\ UNCHANGED <<args, sorted_array, array, mutable_array, needle, rs,
                   environments, env, calls, result, hstack, num>>

----------------------------------------------------------------------------
(* create_environments. *)

Rand == 0..RandMax

\* create_int_array(n): n draws of rand()
IntArrays(n) == [1..n -> Rand]

\* the data pointer of an entry: the object it points to, or an integer cast
\* to a pointer
Ptr(ref) == [ref |-> ref, val |-> 0]

IntAsPtr(n) == [ref |-> "int", val |-> n]

Null == [ref |-> "NULL", val |-> 0]

\* IsNull without the test
NeverNull(d) == FALSE

\* !environment->data
IsNull(d) == d.ref = "NULL" \/ (d.ref = "int" /\ d.val = 0)

Entry(n, algo, data, oclass) == [n |-> n, algo |-> algo, data |-> data, oclass |-> oclass]

\* only algo of the end marker is set
EndMarker == Entry(0, "NULL", Null, "O1")

\* rand()%n
RandIndex(n) == {r % n : r \in Rand}

\* the part of create_environments before the while loop
CreateEnvironments ==
    /\ pc = "build"
    /\ sorted_array' \in {quick_sort(sv, junk).val : sv \in IntArrays(sz), junk \in JunkVals}
    /\ array' \in IntArrays(sz)
    /\ mutable_array' \in IntArrays(sz)
    /\ needle' \in {At(sorted_array', k) : k \in RandIndex(sz)}
    /\ \E from \in RandIndex(sz), to \in RandIndex(sz) :
          LET s == setup_slice_sums(array')
          IN  rs' = [slice_sum |-> s.slice_sum, root_sz |-> s.root_sz,
                     from |-> from, to |-> to]
    /\ calls' = Called(Called(calls, "setup", "quick_sort"), "setup", "setup_slice_sums")
    /\ pc' = "sample"
    /\ UNCHANGED <<args, sz, environments, env, out, result, hstack, num>>

\* while(rs->from < rs->to): the loop goes on
SampleAgain(from, to) == from < to

Resample ==
    /\ pc = "sample"
    /\ SampleAgain(rs.from, rs.to)
    /\ \E from \in RandIndex(sz), to \in RandIndex(sz) :
          rs' = [rs EXCEPT !.from = from, !.to = to]
    /\ UNCHANGED <<pc, args, sz, sorted_array, array, mutable_array, needle,
                   environments, env, out, calls, result, hstack, num>>

\* the registry create_environments returns
Registry(n) ==
    << Entry(n, "get_first",          Ptr("array"),         "O1"),
       Entry(n, "binary_jump_search", Ptr("search"),        "O_logn"),
       Entry(n, "range_sum_query",    Ptr("rs"),            "O_sqrtn"),
       Entry(n, "linear_search",      Ptr("search"),        "O_n"),
       Entry(n, "quick_sort",         Ptr("mutable_array"), "O_nlogn"),
       Entry(n, "find_max_seq_sum",   Ptr("array"),         "O_n_power_2"),
       Entry(n, "solve_hanoi",        IntAsPtr(n),          "O_2_power_n"),
       Entry(n, "do_nothing",         Null,                 "O_n_permut"),
       Entry(n, "do_nothing",         Null,                 "O_n_power_n"),
       EndMarker >>

\* the loop is left, the entries are filled in, and main passes the registry
\* to show_algo_results
Register ==
    /\ pc = "sample"
    /\ ~SampleAgain(rs.from, rs.to)
    /\ environments' = Registry(sz)
    /\ env' = 1
    /\ pc' = "run"
    /\ UNCHANGED <<args, sz, sorted_array, array, mutable_array, needle, rs,
                   out, calls, result, hstack, num>>

----------------------------------------------------------------------------
(* show_algo_results and show_time_taken. *)

oclass_1_str(oclass) ==
    CASE oclass = "O1"          -> "O(1)"
      [] oclass = "O_logn"      -> "O(log(n))"
      [] oclass = "O_sqrtn"     -> "O(sqrt(n))"
      [] oclass = "O_n"         -> "O(n)"
      [] oclass = "O_nlogn"     -> "O(n log(n))"
      [] oclass = "O_n_power_2" -> "O(n^2)"
      [] oclass = "O_2_power_n" -> "O(2^n)"
      [] oclass = "O_n_permut"  -> "O(n!)"
      [] oclass = "O_n_power_n" -> "O(n^n)"
      [] OTHER                  -> "ERROR!"

\* a line of the report: the label, the declared n, and what follows the colon
Line(e, text) ==
    [kind |-> "report", label |-> oclass_1_str(e.oclass), n |-> e.n, text |-> text]

\* while(environments->algo)
AtEntry == pc = "run" /\ environments[env].algo # "NULL"

\* one turn of the loop of show_algo_results: show_time_taken, environments++
ShowTimeTaken ==
    /\ AtEntry
    /\ LET e == environments[env]
       IN  IF IsNull(e.data)
               THEN /\ out' = Append(out, Line(e, "(Not executed)"))
                    /\ UNCHANGED <<mutable_array, calls, result>>
               ELSE /\ result' \in {Invoke(e.algo, e.data.val, junk) : junk \in JunkVals}
                    /\ mutable_array' = IF e.algo = "quick_sort"
                                            THEN result'.val ELSE mutable_array
                    /\ calls' = Called(calls, "run", e.algo)
                    /\ out' = Append(out, Line(e, "elapsed"))
    /\ env' = env + 1
    /\ UNCHANGED <<pc, args, sz, sorted_array, array, needle, rs, environments,
                   hstack, num>>

\* the cursor is at the end marker: show_algo_results and main return
ShowAlgoResultsEnd ==
    /\ pc = "run"
    /\ environments[env].algo = "NULL"
    /\ pc' = "exit"
    /\ UNCHANGED <<args, sz, sorted_array, array, mutable_array, needle, rs,
                   environments, env, out, calls, result, hstack, num>>

----------------------------------------------------------------------------
(* The program: main run on a command line. *)

NoRangeSum == [slice_sum |-> <<>>, root_sz |-> 0, from |-> 0, to |-> 0]

\* argv[1] strings that atol takes to zero
ZeroStrings == { <<>>, <<"0">>, <<"x">>, <<"0", "0">>, <<"x", "1">>,
                 <<" ", "0">>, <<"-", "0">>, <<"0", "x">> }

\* argv[1] strings that atol takes to a size in 1..MaxN
SizeStrings == { <<Digits[n + 1]>> : n \in 1..MaxN } \cup { <<"1", "x">>, <<" ", "1">> }

\* the command lines: no argument, or one
CommandLines == { <<>> } \cup { <<s>> : s \in ZeroStrings \cup SizeStrings }

Init ==
    /\ pc = "main"
    /\ args \in CommandLines
    /\ sz = 0
    /\ sorted_array = <<>>
    /\ array = <<>>
    /\ mutable_array = <<>>
    /\ needle = 0
    /\ rs = NoRangeSum
    /\ environments = <<>>
    /\ env = 0
    /\ out = <<>>
    /\ calls = NoCalls
    /\ result = NoResult
    /\ hstack = <<>>
    /\ num = 0

Next ==
    \/ Main
    \/ CreateEnvironments
    \/ Resample
    \/ Register
    \/ ShowTimeTaken
    \/ ShowAlgoResultsEnd

Spec == Init /\ [][Next]_vars

----------------------------------------------------------------------------
(* The algorithms on their own, each on every input within the bounds. *)

Arrays == SeqsUpTo(Vals, MaxLen)

\* needles below, inside and above the range of the elements
Needles == (0 - MaxVal - 1)..(MaxVal + 1)

\* the searches on a sorted haystack, get_first on a sequence of at most one
\* element
InitSearch ==
    /\ pc = "call"
    /\ sorted_array \in {a \in Arrays : Sorted(a)}
    /\ needle \in Needles
    /\ array \in SeqsUpTo(Vals, 1)
    /\ args = <<>>
    /\ sz = 0
    /\ mutable_array = <<>>
    /\ rs = NoRangeSum
    /\ environments = <<>>
    /\ env = 0
    /\ out = <<>>
    /\ calls = NoCalls
    /\ result = NoResult
    /\ hstack = <<>>
    /\ num = 0

NextSearch == RunGetFirst \/ RunBinaryJumpSearch \/ RunLinearSearch

SpecSearch == InitSearch /\ [][NextSearch]_vars

\* a non-empty sequence and a query range 0 <= from <= to < L
InitRange ==
    /\ pc = "setup"
    /\ array \in Arrays \ {<<>>}
    /\ \E from \in 0..(Len(array) - 1), to \in 0..(Len(array) - 1) :
          /\ from <= to
          /\ rs = [NoRangeSum EXCEPT !.from = from, !.to = to]
    /\ args = <<>>
    /\ sz = 0
    /\ sorted_array = <<>>
    /\ mutable_array = <<>>
    /\ needle = 0
    /\ environments = <<>>
    /\ env = 0
    /\ out = <<>>
    /\ calls = NoCalls
    /\ result = NoResult
    /\ hstack = <<>>
    /\ num = 0

NextRange == RunSetupSliceSums \/ RunRangeSumQuery

SpecRange == InitRange /\ [][NextRange]_vars

\* quick_sort on any sequence; array keeps the input
InitSort ==
    /\ pc = "call"
    /\ mutable_array \in Arrays
    /\ array = mutable_array
    /\ args = <<>>
    /\ sz = 0
    /\ sorted_array = <<>>
    /\ needle = 0
    /\ rs = NoRangeSum
    /\ environments = <<>>
    /\ env = 0
    /\ out = <<>>
    /\ calls = NoCalls
    /\ result = NoResult
    /\ hstack = <<>>
    /\ num = 0

NextSort == RunQuickSort

SpecSort == InitSort /\ [][NextSort]_vars

\* the example sequence of the maximum-subarray sum
Example == <<1, 0 - 2, 3, 4, 0 - 1>>

InitMaxSum ==
    /\ pc = "call"
    /\ array \in Arrays \cup {Example}
    /\ args = <<>>
    /\ sz = 0
    /\ sorted_array = <<>>
    /\ mutable_array = <<>>
    /\ needle = 0
    /\ rs = NoRangeSum
    /\ environments = <<>>
    /\ env = 0
    /\ out = <<>>
    /\ calls = NoCalls
    /\ result = NoResult
    /\ hstack = <<>>
    /\ num = 0

NextMaxSum == RunFindMaxSeqSum

SpecMaxSum == InitMaxSum /\ [][NextMaxSum]_vars

\* solve_hanoi on any disk count, a negative one included
InitHanoi ==
    /\ pc = "hanoi"
    /\ num \in (0 - 1)..MaxDisks
    /\ hstack = solve_hanoi(num).stack
    /\ result = HanoiResult(solve_hanoi(num))
    /\ args = <<>>
    /\ sz = 0
    /\ sorted_array = <<>>
    /\ array = <<>>
    /\ mutable_array = <<>>
    /\ needle = 0
    /\ rs = NoRangeSum
    /\ environments = <<>>
    /\ env = 0
    /\ out = <<>>
    /\ calls = NoCalls

NextHanoi == HanoiEnter \/ HanoiMove \/ HanoiLeave \/ HanoiReturn

\* the program is sequential: a call that can take its next step takes it
SpecHanoi == InitHanoi /\ [][NextHanoi]_vars /\ WF_vars(NextHanoi)

----------------------------------------------------------------------------
(* The claims. *)

Returned(algo) == pc = "exit" /\ result.algo = algo

\* C1: with the block sums built by setup_slice_sums, range_sum_query on a
\* range 0 <= from <= to < L returns the direct sum of the elements from..to.
C1_RangeSumIsDirectSum ==
    Returned("range_sum_query") => result.val = DirectSum(array, rs.from, rs.to)

\* C2: quick_sort returns on every input, and leaves the sequence
\* non-decreasing and a permutation of its input; a sorted input is left as
\* it was.
C2_QuickSortSorts ==
    Returned("quick_sort") =>
        /\ Sorted(mutable_array)
        /\ Permutation(array, mutable_array)
        /\ Sorted(array) => mutable_array = array

\* an unsorted input with a duplicate has been sorted
C2_Witness ==
    /\ Returned("quick_sort")
    /\ Len(array) >= 4
    /\ ~Sorted(array)
    /\ \E i, j \in 1..Len(array) : i # j /\ array[i] = array[j]
    /\ mutable_array # array

Occurs(a, v) == \E i \in 1..Len(a) : a[i] = v

\* C3: on a non-empty sorted haystack, binary_jump_search and linear_search
\* each report "found" exactly when the needle occurs in the haystack.
C3_SearchesFindExactlyMembers ==
    (/\ pc = "exit"
     /\ result.algo \in {"binary_jump_search", "linear_search"}
     /\ Len(sorted_array) >= 1)
        => (Found(result) <=> Occurs(sorted_array, needle))

\* the jump search has found a duplicated needle at the last position
C3_Witness ==
    /\ Returned("binary_jump_search")
    /\ Found(result)
    /\ Len(sorted_array) >= 4
    /\ needle = sorted_array[Len(sorted_array)]
    /\ needle = sorted_array[Len(sorted_array) - 1]
    /\ sorted_array[1] < needle

\* what the run phase prints for size n: the nine classes in their order,
\* the last two not executed
Report(n) ==
    [k \in 1..9 |->
        [kind  |-> "report",
         label |-> << "O(1)", "O(log(n))", "O(sqrt(n))", "O(n)", "O(n log(n))",
                      "O(n^2)", "O(2^n)", "O(n!)", "O(n^n)" >>[k],
         n     |-> n,
         text  |-> IF k <= 7 THEN "elapsed" ELSE "(Not executed)"]]

Bound == {"get_first", "binary_jump_search", "range_sum_query", "linear_search",
          "quick_sort", "find_max_seq_sum", "solve_hanoi"}

\* C4: run with a size n >= 1, the harness prints exactly nine report lines
\* in the order O(1) .. O(n^n) and stops at the end marker; the run phase
\* invokes each of the first seven algorithms once and never more, and the
\* last two are reported "(Not executed)", do_nothing never being invoked.
C4_NineEntriesInOrder ==
    /\ \A r \in Routines : calls["run"][r] <= (IF r \in Bound THEN 1 ELSE 0)
    /\ (pc = "exit" /\ sz >= 1) =>
          /\ out = Report(sz)
          /\ environments[env] = EndMarker
          /\ \A r \in Bound : calls["run"][r] = 1

\* a run with size 2 has ended with its nine lines
C4_Witness ==
    /\ pc = "exit"
    /\ sz = 2
    /\ Len(out) = 9
    /\ out[9].text = "(Not executed)"
    /\ calls["run"]["solve_hanoi"] = 1

NoArgOrZero == Len(args) = 0 \/ atol(args[1]) = 0

\* C5: with no size argument, or one that atol takes to zero, the program
\* prints the usage line alone and ends: nothing is built, no algorithm is
\* called, in the build phase or in the run phase.
C5_UsageOnly ==
    (pc # "main" /\ NoArgOrZero) =>
        /\ pc = "exit"
        /\ out = << [kind |-> "usage"] >>
        /\ calls = NoCalls
        /\ environments = <<>>
        /\ sorted_array = <<>> /\ array = <<>> /\ mutable_array = <<>>
        /\ result = NoResult

\* the usage line has been printed for a non-numeric argument
C5_Witness ==
    /\ pc = "exit"
    /\ args = << <<"x", "1">> >>
    /\ out = << [kind |-> "usage"] >>

\* what holds of solve_hanoi(num) at every step and on its return
C6_Counts ==
    /\ \A k \in 2..Len(hstack) : hstack[k].num >= 1 /\ hstack[k - 1].num > 1
    /\ result.moves <= result.entered
    /\ (pc = "exit" /\ num >= 0) =>
          /\ result.moves = Pow2(num) - 1
          /\ num >= 1 => result.entered = result.moves
          /\ num = 0 => result.entered = 1

\* C6: for num >= 0, solve_hanoi returns and has then made exactly
\* 2^num - 1 moves (none for 0, one for 1); every call of solve_hanoi_1 with
\* num >= 1 makes one move, and only a call with num > 1 calls again, so that
\* no call is made with num < 1 but the first.
C6_HanoiMoves == []C6_Counts /\ <>(pc = "exit")

\* three disks have been moved in seven moves
C6_Witness ==
    /\ pc = "exit"
    /\ num = 3
    /\ result.moves = 7
    /\ result.entered = 7

Largest(S) == CHOOSE m \in S : \A x \in S : x <= m

\* the sums of the non-empty contiguous subarrays of a, and 0
SubSums(a) ==
    {0} \cup { DirectSum(a, p[1], p[2]) :
                 p \in {q \in (0..(Len(a) - 1)) \X (0..(Len(a) - 1)) : q[1] <= q[2]} }

\* C7: find_max_seq_sum returns the largest of 0 and the sums of the
\* non-empty contiguous subarrays: it is >= 0 and >= every element, 0 for an
\* empty or all-negative sequence, and 7 for <<1, -2, 3, 4, -1>>.
C7_MaxSeqSum ==
    Returned("find_max_seq_sum") =>
        /\ result.val = Largest(SubSums(array))
        /\ result.val >= 0
        /\ \A i \in 1..Len(array) : result.val >= array[i]
        /\ (\A i \in 1..Len(array) : array[i] < 0) => result.val = 0
        /\ array = Example => result.val = 7

\* the example sequence has given 7
C7_Witness ==
    /\ Returned("find_max_seq_sum")
    /\ array = Example
    /\ result.val = 7

\* C8: on an empty sequence get_first returns the sentinel, and the two
\* searches report "not found", none of them reading an element.
C8_EmptyInputGuarded ==
    /\ (Returned("get_first") /\ Len(array) = 0) =>
          result.val = 0 - 1 /\ result.reads = {}
    /\ (Returned("binary_jump_search") /\ Len(sorted_array) = 0) =>
          ~Found(result) /\ result.reads = {}
    /\ (Returned("linear_search") /\ Len(sorted_array) = 0) =>
          ~Found(result) /\ result.reads = {}

\* C9: once create_environments has returned for a size n >= 1, the query
\* range it stored satisfies 0 <= from <= to < n.
C9_RangeOrdered ==
    (pc \in {"run", "exit"} /\ sz >= 1) =>
        /\ 0 <= rs.from
        /\ rs.from <= rs.to
        /\ rs.to < sz

\* the sum of the elements of a
Total(a) == SumUpTo(a, Len(a))

Min(x, y) == IF x <= y THEN x ELSE y

\* C10: for a sequence of length L >= 1, setup_slice_sums sets the block
\* size to floor(sqrt(L)) >= 1, allocates floor(L / block size) + 1 blocks,
\* adds element i to block floor(i / block size), always inside the block
\* array, and leaves in block b the sum of the elements
\* b*size .. min(L, (b+1)*size) - 1, so that the blocks sum to the sequence.
C10_SliceSums ==
    (pc = "call" /\ result.algo = "setup_slice_sums") =>
        LET L == Len(array)
            r == rs.root_sz
        IN  /\ r >= 1
            /\ r * r <= L /\ L < (r + 1) * (r + 1)
            /\ Len(rs.slice_sum) = (L \div r) + 1
            /\ result.writes = {i \div r : i \in 0..(L - 1)}
            /\ \A b \in result.writes : 0 <= b /\ b < Len(rs.slice_sum)
            /\ \A b \in 0..(Len(rs.slice_sum) - 1) :
                  At(rs.slice_sum, b) =
                      SumUpTo(array, Min(L, (b + 1) * r)) - SumUpTo(array, b * r)
            /\ Total(rs.slice_sum) = Total(array)

\* five elements in blocks of two, the third block holding the last one
C10_Witness ==
    /\ pc = "call"
    /\ result.algo = "setup_slice_sums"
    /\ Len(array) = 5
    /\ rs.root_sz = 2
    /\ Len(rs.slice_sum) = 3
    /\ array[5] # 0
    /\ rs.slice_sum[3] = array[5]

\* C11: while quick_sort sorts a sequence of length sz >= 1, every index it
\* reads or writes lies in 0..sz-1, and every call of partition_1 on a
\* subrange [low, high] reads and writes only indices in [low, high].
C11_QuickSortStaysInside ==
    (Returned("quick_sort") /\ Len(array) >= 1) =>
        /\ result.acc \subseteq 0..(Len(array) - 1)
        /\ ~result.stray

====
